---- MODULE Spec2Model ----
(***************************************************************************)
(* Model of src/events.rs: the serenity event handlers (guild_create,      *)
(* message_delete, guild_delete, ready / all_shards_ready) and the command *)
(* hooks (before, after), run as concurrent tasks over the shared caches   *)
(* of ctx.data.  Every .await on a lock is one step of a task; every       *)
(* network call is a step, and the call is pending while pc is at it.      *)
(* StatsManager (crate::stats::statsmanager) is modelled from its          *)
(* description: its counters and the operations the handlers call.         *)
(***************************************************************************)
EXTENDS Integers, Sequences, FiniteSets, TLC

\* ---------------------------------------------------------------- bounds
NumTasks == 2
MaxEvents == 3
MaxShards == 2

\* ---------------------------------------------------------------- inputs
Procs == 1..NumTasks
Totals == 1..MaxShards
GuildCounts == {10, 15}
Ages == {29, 30, 45}
MsgIds == {1, 2}
Users == {1, 2}
GuildIds == {3}
CmdNames == {"compile", "asm"}
BlocklistChoices == {{1, 3}, {0}}
Digits == <<"0", "1", "2", "3", "4", "5", "6", "7", "8", "9">>
BotId == <<"7">>
JoinLogChoices == {<<>>, <<"4", "2">>, <<"4", "x">>}
AvatarUrl == <<"u">>

VARIABLES
    tracking,      \* StatsManager::should_track(): a sink is configured
    config,        \* ConfigCache: key -> string; <<>> stands for an absent key
    blocklist,     \* BlocklistCache
    delete_cache,  \* MessageDeleteCache: ids that have a correlated reply
    delete_calls,  \* msg.delete calls issued so far, per message id
    servers,       \* StatsManager::server_count()
    shards,        \* StatsManager::shard_count()
    boot_count,    \* StatsManager: per-shard guild counts, in arrival order
    commands,      \* StatsManager: per-command-name counter
    requests,      \* StatsManager: command attempts recorded by post_request
    pc,            \* each task's position
    held,          \* each task's lock guards: a set of <<container, mode>>
    arg,           \* each task's event payload
    loc,           \* each task's local variables
    out,           \* each task's network calls so far, in order
    started,       \* number of events delivered so far
    accepted,      \* the ready signal behind each entry of boot_count
    declared,      \* the totals the handled ready signals declared
    fleet_ready,   \* number of calls of all_shards_ready
    joins,         \* fresh joins whose stats step has run
    leaves,        \* leaves whose stats step has run
    floored,       \* leaves whose stats step found server_count = 0
    last           \* the handler that returned in the step just taken, if one
                   \* did: its payload, locals and network calls

cfgVars == <<tracking, config, blocklist>>
deleteVars == <<delete_cache, delete_calls>>
statsVars == <<servers, shards, boot_count, commands, requests>>
procVars == <<pc, held, arg, loc, out>>
shardGhost == <<accepted, declared, fleet_ready>>
guildGhost == <<joins, leaves, floored>>
vars == <<tracking, config, blocklist, delete_cache, delete_calls, servers,
          shards, boot_count,
          commands, requests, pc, held, arg, loc, out, started, accepted,
          declared, fleet_ready, joins, leaves, floored, last>>

\* ------------------------------------------------------------- helpers
RECURSIVE SeqSum(_)
SeqSum(s) == IF s = <<>> THEN 0 ELSE s[1] + SeqSum(Tail(s))

RECURSIVE DigitValue(_, _)
DigitValue(c, i) ==
    IF i > 10 THEN -1 ELSE IF Digits[i] = c THEN i - 1 ELSE DigitValue(c, i + 1)

RECURSIVE ParseFrom(_, _)
ParseFrom(s, acc) ==
    IF s = <<>> THEN acc
    ELSE IF DigitValue(s[1], 1) < 0 THEN -1
    ELSE ParseFrom(Tail(s), acc * 10 + DigitValue(s[1], 1))

\* str::parse::<u64>: -1 stands for Err (empty, or a character that is no digit)
ParseU64(s) == IF s = <<>> THEN -1 ELSE ParseFrom(s, 0)

NoArg == [kind |-> "none", idx |-> 0, total |-> 0, guilds |-> 0, age |-> 0,
          id |-> 0, author |-> 0, guild |-> <<>>, cmd |-> "", res |-> ""]

NoLoc == [server_count |-> 0, shard_count |-> 0, guild_count |-> 0, id |-> 0,
          skipped |-> FALSE, fired |-> FALSE, distinct |-> 0, before |-> 0,
          author_blocklisted |-> FALSE, guild_blocklisted |-> FALSE,
          ret |-> "none", body |-> FALSE, counted |-> FALSE]

NoLast == [arg |-> NoArg, loc |-> NoLoc, out |-> <<>>]

\* a Mutex or RwLock scope on container c in mode m can be taken by task p
CanAcquire(p, c, m) ==
    \A q \in Procs \ {p} : \A l \in held[q] :
        l[1] = c => (m = "R" /\ l[2] = "R")

Acquire(p, c, m) == held[p] \cup {<<c, m>>}

Release(p, c) == {l \in held[p] : l[1] # c}

\* task p goes on to label with guards h, locals l and network calls o
Move(p, label, h, l, o) ==
    /\ pc' = [pc EXCEPT ![p] = label]
    /\ held' = [held EXCEPT ![p] = h]
    /\ loc' = [loc EXCEPT ![p] = l]
    /\ out' = [out EXCEPT ![p] = o]
    /\ last' = NoLast
    /\ UNCHANGED <<arg, started>>

\* the handler returns: every guard is dropped, the task slot is free again,
\* and for this one state last holds what the handler was given, computed
\* and sent
Finish(p, l, o) ==
    /\ pc' = [pc EXCEPT ![p] = "idle"]
    /\ held' = [held EXCEPT ![p] = {}]
    /\ arg' = [arg EXCEPT ![p] = NoArg]
    /\ loc' = [loc EXCEPT ![p] = NoLoc]
    /\ out' = [out EXCEPT ![p] = <<>>]
    /\ last' = [arg |-> arg[p], loc |-> l, out |-> o]
    /\ UNCHANGED started

\* the slots are interchangeable: an event takes the first free one
FreeSlot(p) ==
    /\ pc[p] = "idle"
    /\ \A q \in Procs : q < p => pc[q] # "idle"
    /\ started < MaxEvents

\* an event with payload a is delivered to task slot p
Start(p, a, label, guards) ==
    /\ FreeSlot(p)
    /\ started' = started + 1
    /\ arg' = [arg EXCEPT ![p] = a]
    /\ held' = [held EXCEPT ![p] = guards]
    /\ pc' = [pc EXCEPT ![p] = label]
    /\ last' = NoLast
    /\ UNCHANGED <<loc, out>>

\* ------------------------------------------------------- StatsManager
should_track == tracking

new_server(n) == n + 1

\* the decrement without its floor
leave_server_unfloored(n) == n - 1

leave_server(n) == IF n > 0 THEN n - 1 ELSE 0

get_boot_vec_sum(v) == SeqSum(v)

add_shard_count(n) == n + 1

add_shard_vec(v, server_count) == Append(v, server_count)

post_request(n) == n + 1

command_executed(c, name) == [c EXCEPT ![name] = @ + 1]

\* -------------------------------------------------------------- ready
\* the distinct shard indices among the recorded ready signals
ReportedShards(acc) == {acc[i].idx : i \in DOMAIN acc}

\* the duplicate check off by one: a signal is skipped only past the total
IsDuplicateReadyLate(count, total) == count > total

\* the duplicate check left out
IsDuplicateReadyNever(count, total) == FALSE

IsDuplicateReady(count, total) == count + 1 > total

FleetComplete(count, total) == count = total

ready_start(p) ==
    /\ \E total \in Totals, idx \in 0..(MaxShards - 1), g \in GuildCounts :
        /\ idx < total
        /\ Start(p, [NoArg EXCEPT !.kind = "ready", !.idx = idx,
                                  !.total = total, !.guilds = g],
                 "rd_lock_stats", {<<"data", "R">>})
    /\ UNCHANGED <<cfgVars, deleteVars, statsVars, shardGhost, guildGhost>>

\* from stats.lock().await to the call of all_shards_ready or the return
ready_lock_stats(p) ==
    /\ pc[p] = "rd_lock_stats"
    /\ CanAcquire(p, "stats", "W")
    /\ declared' = declared \cup {arg[p].total}
    /\ IF IsDuplicateReady(shards, arg[p].total)
       THEN /\ Finish(p, [loc[p] EXCEPT !.skipped = TRUE], out[p])
            /\ UNCHANGED <<shards, boot_count, accepted, fleet_ready>>
       ELSE /\ shards' = add_shard_count(shards)
            /\ boot_count' = add_shard_vec(boot_count, arg[p].guilds)
            /\ accepted' = Append(accepted, [idx |-> arg[p].idx,
                                              total |-> arg[p].total,
                                              guilds |-> arg[p].guilds])
            /\ IF FleetComplete(shards', arg[p].total)
               THEN /\ Move(p, "asr_lock_config", Acquire(p, "stats", "W"),
                            [loc[p] EXCEPT
                                !.fired = TRUE,
                                !.distinct = Cardinality(ReportedShards(accepted')),
                                !.shard_count = shards'],
                            out[p])
                    /\ fleet_ready' = fleet_ready + 1
               ELSE /\ Finish(p, loc[p], out[p])
                    /\ UNCHANGED fleet_ready
    /\ UNCHANGED <<cfgVars, deleteVars, servers, commands, requests, guildGhost>>

\* ---------------------------------------------------- all_shards_ready
\* the push made without asking should_track
PostsServersAlways(track) == TRUE

PostsServers(track) == track

all_shards_ready_lock_config(p) ==
    /\ pc[p] = "asr_lock_config"
    /\ CanAcquire(p, "config", "W")
    /\ config' = [config EXCEPT !["BOT_AVATAR"] = AvatarUrl]
    /\ Move(p, "asr_lock_manager", Acquire(p, "config", "W"), loc[p], out[p])
    /\ UNCHANGED <<tracking, blocklist, deleteVars, statsVars, shardGhost,
                   guildGhost>>

all_shards_ready_lock_manager(p) ==
    /\ pc[p] = "asr_lock_manager"
    /\ CanAcquire(p, "manager", "W")
    /\ Move(p, IF PostsServers(should_track) THEN "asr_post_servers"
               ELSE "asr_presence",
            Acquire(p, "manager", "W"),
            [loc[p] EXCEPT !.guild_count = get_boot_vec_sum(boot_count)], out[p])
    /\ UNCHANGED <<cfgVars, deleteVars, statsVars, shardGhost, guildGhost>>

\* stats.post_servers(guild_count).await returns
all_shards_ready_post_servers(p) ==
    /\ pc[p] = "asr_post_servers"
    /\ Move(p, "asr_presence", held[p], loc[p],
            Append(out[p], [io |-> "post_servers", value |-> loc[p].guild_count]))
    /\ UNCHANGED <<cfgVars, deleteVars, statsVars, shardGhost, guildGhost>>

\* send_global_presence(..).await returns, and so do all_shards_ready and ready
all_shards_ready_presence(p) ==
    /\ pc[p] = "asr_presence"
    /\ Finish(p, loc[p],
              Append(out[p], [io |-> "presence", value |-> loc[p].guild_count]))
    /\ UNCHANGED <<cfgVars, deleteVars, statsVars, shardGhost, guildGhost>>

ReadyStep(p) ==
    \/ ready_start(p)
    \/ ready_lock_stats(p)
    \/ all_shards_ready_lock_config(p)
    \/ all_shards_ready_lock_manager(p)
    \/ all_shards_ready_post_servers(p)
    \/ all_shards_ready_presence(p)

\* ------------------------------------------------------- guild_create
FreshWindow == 30

\* the window closed at its end: a join exactly 30 seconds old taken as fresh
IsFreshInclusive(age) == age <= FreshWindow

IsFresh(age) == age < FreshWindow

\* the audit post made for any JOIN_LOG value, parsed or not
JoinLogChannelUnparsed(cfg) ==
    IF cfg["JOIN_LOG"] = <<>> THEN -1
    ELSE IF ParseU64(cfg["JOIN_LOG"]) >= 0 THEN ParseU64(cfg["JOIN_LOG"]) ELSE 0

\* info.get("JOIN_LOG") parsed as u64: -1 when absent or unparsable
JoinLogChannel(cfg) ==
    IF cfg["JOIN_LOG"] = <<>> THEN -1 ELSE ParseU64(cfg["JOIN_LOG"])

\* the increment applied twice
guild_create_counts_twice(track, n) ==
    IF track THEN new_server(new_server(n)) ELSE n

\* server_count after `if stats.should_track() { stats.new_server().await }`
guild_create_counts(track, n) == IF track THEN new_server(n) ELSE n

\* server_count after `if stats.should_track() { stats.leave_server().await }`
guild_delete_counts(track, n) == IF track THEN leave_server(n) ELSE n

guild_create_start(p) ==
    /\ \E age \in Ages :
        LET a == [NoArg EXCEPT !.kind = "guild_create", !.age = age]
        IN IF IsFresh(age)
           THEN Start(p, a, "gc_lock_stats", {<<"data", "R">>})
           ELSE /\ FreeSlot(p)
                /\ started' = started + 1
                /\ last' = [arg |-> a, loc |-> NoLoc, out |-> <<>>]
                /\ UNCHANGED procVars
    /\ UNCHANGED <<cfgVars, deleteVars, statsVars, shardGhost, guildGhost>>

\* the stats guard dropped right after the counters were read
guild_create_guards_scoped(p) == held[p]

\* `let mut stats = ..lock().await` is a binding of the `if` block: the guard
\* lives to the end of the handler
guild_create_guards(p) == Acquire(p, "stats", "W")

guild_create_lock_stats(p) ==
    /\ pc[p] = "gc_lock_stats"
    /\ CanAcquire(p, "stats", "W")
    /\ servers' = guild_create_counts(should_track, servers)
    /\ joins' = joins + 1
    /\ Move(p, "gc_lock_config", guild_create_guards(p),
            [loc[p] EXCEPT !.before = servers, !.server_count = servers',
                           !.shard_count = shards],
            out[p])
    /\ UNCHANGED <<cfgVars, deleteVars, shards, boot_count, commands, requests,
                   shardGhost, leaves, floored>>

\* the config read guard is scoped to the block of the audit post
guild_create_lock_config(p) ==
    /\ pc[p] = "gc_lock_config"
    /\ CanAcquire(p, "config", "R")
    /\ IF JoinLogChannel(config) >= 0
       THEN Move(p, "gc_audit", Acquire(p, "config", "R"),
                 [loc[p] EXCEPT !.id = ParseU64(config["BOT_ID"])], out[p])
       ELSE Move(p, "gc_lock_dbl", held[p],
                 [loc[p] EXCEPT !.id = ParseU64(config["BOT_ID"])], out[p])
    /\ UNCHANGED <<cfgVars, deleteVars, statsVars, shardGhost, guildGhost>>

\* manual_dispatch(..).await returns
guild_create_audit(p) ==
    /\ pc[p] = "gc_audit"
    /\ \E ok \in BOOLEAN :
        Move(p, "gc_lock_dbl", Release(p, "config"), loc[p],
             Append(out[p], [io |-> "audit", value |-> JoinLogChannel(config),
                             ok |-> ok]))
    /\ UNCHANGED <<cfgVars, deleteVars, statsVars, shardGhost, guildGhost>>

guild_create_lock_dbl(p) ==
    /\ pc[p] = "gc_lock_dbl"
    /\ CanAcquire(p, "dbl", "R")
    /\ Move(p, "gc_update_stats", Acquire(p, "dbl", "R"), loc[p], out[p])
    /\ UNCHANGED <<cfgVars, deleteVars, statsVars, shardGhost, guildGhost>>

\* the push made again until it succeeds
guild_create_retries_push(ok) == IF ok THEN "gc_lock_manager" ELSE "gc_lock_dbl"

\* `if dbl.update_stats(..).await.is_err() { warn!(..) }`: on to the presence
\* update either way
guild_create_after_push(ok) == "gc_lock_manager"

\* dbl.update_stats(..).await returns
guild_create_update_stats(p) ==
    /\ pc[p] = "gc_update_stats"
    /\ \E ok \in BOOLEAN :
        Move(p, guild_create_after_push(ok), Release(p, "dbl"), loc[p],
             Append(out[p], [io |-> "update_stats",
                             value |-> loc[p].server_count,
                             shard_count |-> loc[p].shard_count, ok |-> ok]))
    /\ UNCHANGED <<cfgVars, deleteVars, statsVars, shardGhost, guildGhost>>

guild_create_lock_manager(p) ==
    /\ pc[p] = "gc_lock_manager"
    /\ CanAcquire(p, "manager", "W")
    /\ Move(p, "gc_presence", Acquire(p, "manager", "W"), loc[p], out[p])
    /\ UNCHANGED <<cfgVars, deleteVars, statsVars, shardGhost, guildGhost>>

\* send_global_presence(..).await returns, and so does guild_create
guild_create_presence(p) ==
    /\ pc[p] = "gc_presence"
    /\ Finish(p, loc[p],
              Append(out[p], [io |-> "presence", value |-> loc[p].server_count]))
    /\ UNCHANGED <<cfgVars, deleteVars, statsVars, shardGhost, guildGhost>>

GuildCreateStep(p) ==
    \/ guild_create_start(p)
    \/ guild_create_lock_stats(p)
    \/ guild_create_lock_config(p)
    \/ guild_create_audit(p)
    \/ guild_create_lock_dbl(p)
    \/ guild_create_update_stats(p)
    \/ guild_create_lock_manager(p)
    \/ guild_create_presence(p)

\* ------------------------------------------------------- guild_delete
\* the configuration read guard taken before the stats lock
guild_delete_start_config_first(p) ==
    /\ CanAcquire(p, "config", "R")
    /\ Start(p, [NoArg EXCEPT !.kind = "guild_delete"], "gd_lock_stats",
             {<<"data", "R">>, <<"config", "R">>})
    /\ UNCHANGED <<cfgVars, deleteVars, statsVars, shardGhost, guildGhost>>

guild_delete_start(p) ==
    /\ Start(p, [NoArg EXCEPT !.kind = "guild_delete"], "gd_lock_stats",
             {<<"data", "R">>})
    /\ UNCHANGED <<cfgVars, deleteVars, statsVars, shardGhost, guildGhost>>

guild_delete_lock_stats(p) ==
    /\ pc[p] = "gd_lock_stats"
    /\ CanAcquire(p, "stats", "W")
    /\ servers' = guild_delete_counts(should_track, servers)
    /\ leaves' = leaves + 1
    /\ floored' = IF servers = 0 THEN floored + 1 ELSE floored
    /\ Move(p, "gd_lock_config", Acquire(p, "stats", "W"),
            [loc[p] EXCEPT !.before = servers], out[p])
    /\ UNCHANGED <<cfgVars, deleteVars, shards, boot_count, commands, requests,
                   shardGhost, joins>>

\* the guard `info` lives to the end of the function
guild_delete_lock_config(p) ==
    /\ pc[p] = "gd_lock_config"
    /\ CanAcquire(p, "config", "R")
    /\ Move(p, IF JoinLogChannel(config) >= 0 THEN "gd_audit" ELSE "gd_lock_dbl",
            Acquire(p, "config", "R"),
            [loc[p] EXCEPT !.id = ParseU64(config["BOT_ID"])], out[p])
    /\ UNCHANGED <<cfgVars, deleteVars, statsVars, shardGhost, guildGhost>>

\* manual_dispatch(..).await returns
guild_delete_audit(p) ==
    /\ pc[p] = "gd_audit"
    /\ \E ok \in BOOLEAN :
        Move(p, "gd_lock_dbl", held[p], loc[p],
             Append(out[p], [io |-> "audit", value |-> JoinLogChannel(config),
                             ok |-> ok]))
    /\ UNCHANGED <<cfgVars, deleteVars, statsVars, shardGhost, guildGhost>>

\* new_stats is built from the locked stats before the sink handle is taken
guild_delete_lock_dbl(p) ==
    /\ pc[p] = "gd_lock_dbl"
    /\ CanAcquire(p, "dbl", "R")
    /\ Move(p, "gd_update_stats", Acquire(p, "dbl", "R"),
            [loc[p] EXCEPT !.server_count = servers, !.shard_count = shards],
            out[p])
    /\ UNCHANGED <<cfgVars, deleteVars, statsVars, shardGhost, guildGhost>>

guild_delete_after_push(ok) == "gd_lock_manager"

\* dbl.update_stats(..).await returns
guild_delete_update_stats(p) ==
    /\ pc[p] = "gd_update_stats"
    /\ \E ok \in BOOLEAN :
        Move(p, guild_delete_after_push(ok), Release(p, "dbl"), loc[p],
             Append(out[p], [io |-> "update_stats",
                             value |-> loc[p].server_count,
                             shard_count |-> loc[p].shard_count, ok |-> ok]))
    /\ UNCHANGED <<cfgVars, deleteVars, statsVars, shardGhost, guildGhost>>

guild_delete_lock_manager(p) ==
    /\ pc[p] = "gd_lock_manager"
    /\ CanAcquire(p, "manager", "W")
    /\ Move(p, "gd_presence", Acquire(p, "manager", "W"), loc[p], out[p])
    /\ UNCHANGED <<cfgVars, deleteVars, statsVars, shardGhost, guildGhost>>

\* send_global_presence(.., stats.server_count()).await returns, and so does
\* guild_delete
guild_delete_presence(p) ==
    /\ pc[p] = "gd_presence"
    /\ Finish(p, loc[p], Append(out[p], [io |-> "presence", value |-> servers]))
    /\ UNCHANGED <<cfgVars, deleteVars, statsVars, shardGhost, guildGhost>>

GuildDeleteStep(p) ==
    \/ guild_delete_start(p)
    \/ guild_delete_lock_stats(p)
    \/ guild_delete_lock_config(p)
    \/ guild_delete_audit(p)
    \/ guild_delete_lock_dbl(p)
    \/ guild_delete_update_stats(p)
    \/ guild_delete_lock_manager(p)
    \/ guild_delete_presence(p)

\* ----------------------------------------------------- message_delete
message_delete_start(p) ==
    /\ \E id \in MsgIds :
        Start(p, [NoArg EXCEPT !.kind = "message_delete", !.id = id], "md_lock",
              {<<"data", "R">>})
    /\ UNCHANGED <<cfgVars, deleteVars, statsVars, shardGhost, guildGhost>>

message_delete_lock(p) ==
    /\ pc[p] = "md_lock"
    /\ CanAcquire(p, "delete", "W")
    /\ IF arg[p].id \in delete_cache
       THEN /\ Move(p, "md_delete", Acquire(p, "delete", "W"), loc[p], out[p])
            /\ delete_calls' = [delete_calls EXCEPT ![arg[p].id] = @ + 1]
       ELSE /\ Finish(p, loc[p], out[p])
            /\ UNCHANGED delete_calls
    /\ UNCHANGED <<cfgVars, delete_cache, statsVars, shardGhost, guildGhost>>

\* the entry kept when the delete call failed
RemoveEntryIfDeleted(cache, id, ok) == IF ok THEN cache \ {id} ELSE cache

\* delete_cache.remove(id), whatever msg.delete returned
RemoveEntry(cache, id, ok) == cache \ {id}

\* msg.delete(ctx.http).await returns; the entry is removed either way
message_delete_delete(p) ==
    /\ pc[p] = "md_delete"
    /\ \E ok \in BOOLEAN :
        /\ Finish(p, loc[p],
                  Append(out[p], [io |-> "delete", value |-> arg[p].id,
                                  ok |-> ok]))
        /\ delete_cache' = RemoveEntry(delete_cache, arg[p].id, ok)
    /\ UNCHANGED <<cfgVars, delete_calls, statsVars, shardGhost, guildGhost>>

MessageDeleteStep(p) ==
    \/ message_delete_start(p)
    \/ message_delete_lock(p)
    \/ message_delete_delete(p)

\* ------------------------------------------------------ before / after
\* msg.guild_id is an Option: <<>> is None, <<id>> is Some(id)
GuildIdOrZero(g) == IF g = <<>> THEN 0 ELSE g[1]

Contains(bl, id) == id \in bl

\* the guild's entry in the blocklist ignored
BlocklistedAuthorOnly(author_blocklisted, guild_blocklisted) ==
    author_blocklisted

Blocklisted(author_blocklisted, guild_blocklisted) ==
    author_blocklisted \/ guild_blocklisted

\* before ignores the command's name: the name is drawn with the command's
\* result, where the command runs
before_start(p) ==
    /\ \E a \in Users, g \in {<<>>} \cup {<<i>> : i \in GuildIds} :
        Start(p, [NoArg EXCEPT !.kind = "command", !.author = a, !.guild = g],
              "bf_lock_stats", {<<"data", "R">>})
    /\ UNCHANGED <<cfgVars, deleteVars, statsVars, shardGhost, guildGhost>>

\* the stats guard is scoped to the block: taken, used and dropped in one step
before_lock_stats(p) ==
    /\ pc[p] = "bf_lock_stats"
    /\ CanAcquire(p, "stats", "W")
    /\ requests' = IF should_track THEN post_request(requests) ELSE requests
    /\ Move(p, "bf_lock_blocklist", held[p], loc[p], out[p])
    /\ UNCHANGED <<cfgVars, deleteVars, servers, shards, boot_count, commands,
                   shardGhost, guildGhost>>

before_lock_blocklist(p) ==
    /\ pc[p] = "bf_lock_blocklist"
    /\ CanAcquire(p, "blocklist", "R")
    /\ LET ab == Contains(blocklist, arg[p].author)
           gb == Contains(blocklist, GuildIdOrZero(arg[p].guild))
           l == [loc[p] EXCEPT !.author_blocklisted = ab,
                               !.guild_blocklisted = gb]
       IN IF Blocklisted(ab, gb)
          THEN Move(p, "bf_reply", Acquire(p, "blocklist", "R"), l, out[p])
          ELSE Move(p, "dispatch", {}, [l EXCEPT !.ret = "true"], out[p])
    /\ UNCHANGED <<cfgVars, deleteVars, statsVars, shardGhost, guildGhost>>

\* send_message(..).await returns; before returns false whatever it returned
before_reply(p) ==
    /\ pc[p] = "bf_reply"
    /\ \E sent \in BOOLEAN :
        Move(p, "dispatch", {}, [loc[p] EXCEPT !.ret = "false"],
             Append(out[p], [io |-> "send_message", value |-> "blocked",
                             ok |-> sent]))
    /\ UNCHANGED <<cfgVars, deleteVars, statsVars, shardGhost, guildGhost>>

\* the dispatch framework: the command body and the post-hook run only when
\* the pre-hook returned true
dispatch(p) ==
    /\ pc[p] = "dispatch"
    /\ IF loc[p].ret = "true"
       THEN \E c \in CmdNames, r \in {"Ok", "Err"} :
              /\ pc' = [pc EXCEPT ![p] = IF r = "Err" THEN "af_reply"
                                         ELSE "af_lock_stats"]
              /\ arg' = [arg EXCEPT ![p].cmd = c, ![p].res = r]
              /\ loc' = [loc EXCEPT ![p].body = TRUE]
              /\ last' = NoLast
              /\ UNCHANGED <<held, out, started>>
       ELSE Finish(p, loc[p], out[p])
    /\ UNCHANGED <<cfgVars, deleteVars, statsVars, shardGhost, guildGhost>>

\* send_message(..).await of the error reply returns
after_reply(p) ==
    /\ pc[p] = "af_reply"
    /\ \E sent \in BOOLEAN :
        Move(p, "af_lock_stats", held[p], loc[p],
             Append(out[p], [io |-> "send_message", value |-> "error",
                             ok |-> sent]))
    /\ UNCHANGED <<cfgVars, deleteVars, statsVars, shardGhost, guildGhost>>

\* the counter recorded for successful commands only
after_counts_on_success(track, res, c, name) ==
    IF track /\ res = "Ok" THEN command_executed(c, name) ELSE c

\* the counters after `if stats.should_track() { stats.command_executed(..) }`,
\* which stands outside the `if let Err(e) = command_result`
after_counts(track, res, c, name) ==
    IF track THEN command_executed(c, name) ELSE c

after_lock_stats(p) ==
    /\ pc[p] = "af_lock_stats"
    /\ CanAcquire(p, "stats", "W")
    /\ commands' = after_counts(should_track, arg[p].res, commands, arg[p].cmd)
    /\ Finish(p, [loc[p] EXCEPT !.counted = should_track], out[p])
    /\ UNCHANGED <<cfgVars, deleteVars, servers, shards, boot_count, requests,
                   shardGhost, guildGhost>>

CommandStep(p) ==
    \/ before_start(p)
    \/ before_lock_stats(p)
    \/ before_lock_blocklist(p)
    \/ before_reply(p)
    \/ dispatch(p)
    \/ after_reply(p)
    \/ after_lock_stats(p)

\* ------------------------------------------------------ specification
InitState(trackings, joinLogs, blocklists, caches) ==
    /\ tracking \in trackings
    /\ \E jl \in joinLogs :
         config = [k \in {"BOT_ID", "JOIN_LOG", "BOT_AVATAR"} |->
                     IF k = "BOT_ID" THEN BotId
                     ELSE IF k = "JOIN_LOG" THEN jl ELSE <<>>]
    /\ blocklist \in blocklists
    /\ delete_cache \in caches
    /\ delete_calls = [id \in MsgIds |-> 0]
    /\ servers = 0
    /\ shards = 0
    /\ boot_count = <<>>
    /\ commands = [c \in CmdNames |-> 0]
    /\ requests = 0
    /\ pc = [p \in Procs |-> "idle"]
    /\ held = [p \in Procs |-> {}]
    /\ arg = [p \in Procs |-> NoArg]
    /\ loc = [p \in Procs |-> NoLoc]
    /\ out = [p \in Procs |-> <<>>]
    /\ started = 0
    /\ accepted = <<>>
    /\ declared = {}
    /\ fleet_ready = 0
    /\ joins = 0
    /\ leaves = 0
    /\ floored = 0
    /\ last = NoLast

\* one reply is recorded in the delete cache, under id 1
InitWith(trackings, joinLogs, blocklists) ==
    InitState(trackings, joinLogs, blocklists, {{1}})

\* every handler, in the configuration where every feature is on
Init == InitWith({TRUE}, {<<"4", "2">>}, {{1, 3}})

Next ==
    \E p \in Procs :
        \/ ReadyStep(p)
        \/ GuildCreateStep(p)
        \/ GuildDeleteStep(p)
        \/ MessageDeleteStep(p)
        \/ CommandStep(p)

Spec == Init /\ [][Next]_vars

\* the steps of task p after the delivery of its event: lock acquisitions and
\* returns of network calls
Progress(p) ==
    \/ ready_lock_stats(p)
    \/ all_shards_ready_lock_config(p)
    \/ all_shards_ready_lock_manager(p)
    \/ all_shards_ready_post_servers(p)
    \/ all_shards_ready_presence(p)
    \/ guild_create_lock_stats(p)
    \/ guild_create_lock_config(p)
    \/ guild_create_audit(p)
    \/ guild_create_lock_dbl(p)
    \/ guild_create_update_stats(p)
    \/ guild_create_lock_manager(p)
    \/ guild_create_presence(p)
    \/ guild_delete_lock_stats(p)
    \/ guild_delete_lock_config(p)
    \/ guild_delete_audit(p)
    \/ guild_delete_lock_dbl(p)
    \/ guild_delete_update_stats(p)
    \/ guild_delete_lock_manager(p)
    \/ guild_delete_presence(p)
    \/ message_delete_lock(p)
    \/ message_delete_delete(p)
    \/ before_lock_stats(p)
    \/ before_lock_blocklist(p)
    \/ before_reply(p)
    \/ dispatch(p)
    \/ after_reply(p)
    \/ after_lock_stats(p)

\* every handler, where the runtime keeps polling every task: a task whose
\* lock is free or whose network call has returned goes on
LiveSpec == Init /\ [][Next]_vars /\ \A p \in Procs : WF_vars(Progress(p))

\* the shard-ready handlers alone
ShardInit == InitWith(BOOLEAN, {<<>>}, {{1, 3}})

ShardNext == \E p \in Procs : ReadyStep(p)

ShardSpec == ShardInit /\ [][ShardNext]_vars

\* the guild join and leave handlers together with the shard-ready handlers
GuildInit == InitWith(BOOLEAN, JoinLogChoices, {{1, 3}})

GuildNext == \E p \in Procs : ReadyStep(p) \/ GuildCreateStep(p) \/ GuildDeleteStep(p)

GuildSpec == GuildInit /\ [][GuildNext]_vars

\* the guild join and leave handlers alone
JoinLeaveInit == InitWith(BOOLEAN, JoinLogChoices, {{1, 3}})

JoinLeaveNext == \E p \in Procs : GuildCreateStep(p) \/ GuildDeleteStep(p)

JoinLeaveSpec == JoinLeaveInit /\ [][JoinLeaveNext]_vars

\* the delete notifications alone, with one or two replies recorded
DeleteInit == InitState({TRUE}, {<<>>}, {{1, 3}}, {{1}, {1, 2}})

DeleteNext == \E p \in Procs : MessageDeleteStep(p)

DeleteSpec == DeleteInit /\ [][DeleteNext]_vars

\* the command hooks alone
CommandInit == InitWith(BOOLEAN, {<<>>}, BlocklistChoices)

CommandNext == \E p \in Procs : CommandStep(p)

CommandSpec == CommandInit /\ [][CommandNext]_vars

\* ------------------------------------------------------------- claims
\* the ready signals handled so far all declared the same total
SameTotal == Cardinality(declared) <= 1

Quiet == \A p \in Procs : pc[p] = "idle"

\* C1: when every ready signal declares the same total N, all_shards_ready
\* runs at most once, it has run exactly when the number of distinct shard
\* indices recorded equals N, and at the moment it runs that number is N.
FleetReadyWhenAllShardsReported ==
    SameTotal =>
        /\ fleet_ready <= 1
        /\ \A p \in Procs : loc[p].fired => loc[p].distinct = arg[p].total
        /\ \A n \in declared :
              (fleet_ready = 1) <=> (Cardinality(ReportedShards(accepted)) = n)

\* C2: the same ready signal (same shard index, total and guild count) is
\* never recorded twice in the per-shard tally, and the fleet-ready transition
\* does not fire twice.
NoSignalCountedTwice ==
    SameTotal =>
        /\ \A i, j \in DOMAIN accepted : i # j => accepted[i] # accepted[j]
        /\ fleet_ready <= 1

\* C3: while every ready signal declares the same total N, shard_count and
\* the length of the per-shard tally never exceed N.
ShardCountWithinExpected ==
    \A n \in declared :
        declared = {n} => shards <= n /\ Len(boot_count) <= n

\* C3 witness: a fleet of MaxShards is complete, all_shards_ready has run, and
\* a further ready signal declaring the same total has just been skipped.
SecondSignalSkipped ==
    /\ declared = {MaxShards}
    /\ shards = MaxShards
    /\ fleet_ready = 1
    /\ last.arg.kind = "ready" /\ last.loc.skipped

\* the network calls all_shards_ready makes for an aggregate guild count
FleetReadyCalls(guild_count) ==
    (IF tracking THEN <<[io |-> "post_servers", value |-> guild_count]>> ELSE <<>>)
        \o <<[io |-> "presence", value |-> guild_count]>>

\* C4: the aggregate all_shards_ready uses is the sum of the per-shard tally;
\* it makes exactly one presence update with that sum, preceded by exactly
\* one stats push of that sum if tracking is enabled and by none otherwise.
FleetReadyUsesTallySum ==
    /\ \A p \in Procs :
        /\ pc[p] \in {"asr_post_servers", "asr_presence"} =>
              loc[p].guild_count = SeqSum(boot_count)
        /\ pc[p] = "asr_post_servers" => tracking /\ out[p] = <<>>
        /\ pc[p] = "asr_presence" =>
              Append(out[p], [io |-> "presence", value |-> loc[p].guild_count])
                  = FleetReadyCalls(loc[p].guild_count)
    /\ last.loc.fired => last.out = FleetReadyCalls(last.loc.guild_count)

\* C4 witness: shards reporting 10 and 15 guilds: one push of 25, then one
\* presence update with 25.
FleetReadyWith25 ==
    /\ last.loc.fired
    /\ boot_count = <<10, 15>>
    /\ last.out = <<[io |-> "post_servers", value |-> 25],
                    [io |-> "presence", value |-> 25]>>

Max0(n) == IF n > 0 THEN n ELSE 0

\* C5 as stated: with tracking enabled, once every join and leave handler has
\* returned, server_count = max(0, fresh joins - leaves).
FinalCountIsJoinsMinusLeaves ==
    (Quiet /\ tracking) => servers = Max0(joins - leaves)

\* C5 amended: with tracking enabled, once every join and leave handler has
\* returned, server_count = fresh joins - (leaves handled at a positive
\* server_count): each join counts once, each leave once unless it was floored.
FinalCountIsJoinsMinusCountedLeaves ==
    (Quiet /\ tracking) => servers = joins - (leaves - floored)

\* C5 witness: every handler has returned, a leave was floored at 0 and two
\* joins were counted, one of them before the last leave.
FlooredLeaveThenJoins ==
    /\ Quiet /\ tracking
    /\ floored = 1 /\ leaves = 1 /\ joins = 2 /\ servers = 2

\* C6: server_count is never negative, and while a leave handler that found
\* server_count = 0 holds the stats lock, server_count is still 0.
ServerCountNeverNegative ==
    /\ servers >= 0
    /\ \A p \in Procs :
        (arg[p].kind = "guild_delete" /\ <<"stats", "W">> \in held[p]
            /\ loc[p].before = 0) => servers = 0

\* C6 witness: with tracking enabled, a leave handler has applied
\* leave_server at server_count = 0 after a join and a leave were counted.
LeaveAppliedAtZero ==
    \E p \in Procs :
        /\ tracking /\ joins = 1 /\ leaves = 2 /\ floored = 1
        /\ arg[p].kind = "guild_delete" /\ pc[p] = "gd_lock_config"
        /\ loc[p].before = 0 /\ servers = 0

\* the positions at which a network call is pending
IoSteps == {"asr_post_servers", "asr_presence", "gc_audit", "gc_update_stats",
            "gc_presence", "gd_audit", "gd_update_stats", "gd_presence",
            "md_delete", "bf_reply", "af_reply"}

\* the positions at which a push to the external stats sink is pending
PushSteps == {"asr_post_servers", "gc_update_stats", "gd_update_stats"}

\* the stats state and the containers of the shared cache
Containers == {"stats", "config", "blocklist", "delete", "manager", "dbl"}

HeldContainers(p) == {l[1] : l \in {h \in held[p] : h[1] \in Containers}}

\* C7: no task has a network call pending while it holds the stats lock or a
\* lock on a container of the shared cache.
NoNetworkCallUnderLock ==
    \A p \in Procs : pc[p] \in IoSteps => HeldContainers(p) = {}

\* C8: no task holds a scope on more than one container at a time.
OneContainerAtATime ==
    \A p \in Procs : Cardinality(HeldContainers(p)) <= 1

\* C9: while a push to the external stats sink is pending, a ready handler
\* waiting for the stats state can take it.
PendingPushLeavesStatsFree ==
    \A p, q \in Procs :
        (pc[p] \in PushSteps /\ pc[q] = "rd_lock_stats") =>
            CanAcquire(q, "stats", "W")

\* the payload's user id, or its guild id (0 without a guild), is blocklisted
PayloadBlocklisted(a) ==
    \/ a.author \in blocklist
    \/ (IF a.guild = <<>> THEN 0 ELSE a.guild[1]) \in blocklist

\* C10: for a blocklisted user or guild id the pre-hook returns false whether
\* or not the rejection was delivered, the command body and the post-hook do
\* not run and the command counter is not incremented; otherwise the pre-hook
\* returns true.
BlocklistedNeverRuns ==
    /\ \A p \in Procs :
        arg[p].kind = "command" =>
            /\ pc[p] = "dispatch" =>
                  loc[p].ret = IF PayloadBlocklisted(arg[p]) THEN "false"
                               ELSE "true"
            /\ pc[p] \in {"af_reply", "af_lock_stats"} =>
                  ~PayloadBlocklisted(arg[p]) /\ loc[p].body
    /\ last.arg.kind = "command" =>
          IF PayloadBlocklisted(last.arg)
          THEN /\ last.loc.ret = "false"
               /\ ~last.loc.body
               /\ ~last.loc.counted
               /\ Len(last.out) = 1 /\ last.out[1].value = "blocked"
          ELSE last.loc.ret = "true" /\ last.loc.body

\* C10 witness: a message without a guild, guild id 0 blocklisted, the author
\* not: the rejection could not be delivered and the pre-hook returned false.
DeniedThoughReplyFailed ==
    /\ last.arg.kind = "command"
    /\ last.arg.guild = <<>> /\ 0 \in blocklist
    /\ last.arg.author \notin blocklist
    /\ last.loc.ret = "false"
    /\ last.out = <<[io |-> "send_message", value |-> "blocked", ok |-> FALSE]>>

\* the number of network calls of one kind among the calls o
IoCount(o, name) == Cardinality({i \in DOMAIN o : o[i].io = name})

\* C11: a join is handled (stats step, audit post where a channel is
\* configured, external push, presence update) exactly when its joined_at is
\* less than 30 seconds old; a join 30 seconds old or older takes no lock,
\* changes no counter and makes no network call.
JoinEffectsIffFresh ==
    /\ [](\A p \in Procs : arg[p].kind = "guild_create" => arg[p].age < 30)
    /\ [][last'.arg.kind = "guild_create" =>
            IF last'.arg.age < 30
            THEN /\ last'.loc.server_count =
                        last'.loc.before + (IF tracking THEN 1 ELSE 0)
                 /\ IoCount(last'.out, "update_stats") = 1
                 /\ IoCount(last'.out, "presence") = 1
            ELSE /\ UNCHANGED <<statsVars, cfgVars, deleteVars, procVars,
                                guildGhost>>
                 /\ last'.out = <<>>
                 /\ last'.loc = NoLoc]_vars

\* C11 witness: after one fresh join was counted, a join 45 seconds old has
\* just been received and dropped.
StaleJoinIgnored ==
    /\ last.arg.kind = "guild_create" /\ last.arg.age = 45
    /\ last.out = <<>>
    /\ tracking /\ joins = 1 /\ servers = 1

\* C12: a delete notification whose id has an entry makes one delete call
\* and removes the entry whether or not the call succeeded; a notification
\* whose id has no entry makes no call and changes nothing; over any
\* interleaving at most one delete call is made per entry, and none for an id
\* that has no entry.
OneDeletePerEntry ==
    /\ [](\A id \in MsgIds :
            /\ delete_calls[id] <= 1
            /\ delete_calls[id] = 1 =>
                  \/ id \notin delete_cache
                  \/ \E p \in Procs : pc[p] = "md_delete" /\ arg[p].id = id)
    /\ [][last'.arg.kind = "message_delete" =>
            IF last'.arg.id \in delete_cache
            THEN /\ Len(last'.out) = 1
                 /\ last'.out[1].io = "delete"
                 /\ last'.out[1].value = last'.arg.id
                 /\ delete_cache' = delete_cache \ {last'.arg.id}
            ELSE /\ last'.out = <<>>
                 /\ UNCHANGED deleteVars]_vars

\* C12 witness: the reply recorded under id 1 was deleted once and its entry
\* removed; a further notification for id 1 has just returned without a call,
\* while the entry of id 2 is untouched.
SecondDeleteIsNoOp ==
    /\ last.arg.kind = "message_delete" /\ last.arg.id = 1
    /\ last.out = <<>>
    /\ delete_calls = [id \in MsgIds |-> IF id = 1 THEN 1 ELSE 0]
    /\ delete_cache = {2}

\* C13: with tracking disabled no handler changes server_count, shard_count,
\* the per-shard tally or a command or request counter, and no push to the
\* external stats sink is made or pending.
TrackingOffChangesNothing ==
    ~tracking =>
        /\ servers = 0 /\ shards = 0 /\ boot_count = <<>>
        /\ commands = [c \in CmdNames |-> 0] /\ requests = 0
        /\ \A p \in Procs :
              /\ pc[p] \notin PushSteps
              /\ IoCount(out[p], "update_stats") = 0
              /\ IoCount(out[p], "post_servers") = 0

\* C14: once a command body has run the task is in the post-hook; the
\* post-hook replies once exactly when the command failed and, with tracking
\* enabled, adds exactly one to the counter of the command's name, for a
\* failed command as for a successful one and whether or not the reply was
\* delivered; the counters change at no other time.
CounterRecordedOncePerCommand ==
    /\ [](\A p \in Procs :
            loc[p].body => pc[p] \in {"af_reply", "af_lock_stats"})
    /\ [][(last'.arg.kind = "command" /\ last'.loc.body) =>
            /\ commands' = IF tracking
                           THEN [commands EXCEPT ![last'.arg.cmd] = @ + 1]
                           ELSE commands
            /\ last'.loc.counted = tracking
            /\ IF last'.arg.res = "Err"
               THEN Len(last'.out) = 1 /\ last'.out[1].value = "error"
               ELSE last'.out = <<>>]_vars
    /\ [][commands' # commands =>
            last'.arg.kind = "command" /\ last'.loc.body]_vars

\* C14 witness: two commands named compile have run, one succeeded and one
\* failed; the error reply of the failed one could not be delivered, and the
\* counter of compile stands at 2.
FailedCommandCounted ==
    /\ last.arg.kind = "command" /\ last.arg.cmd = "compile"
    /\ last.arg.res = "Err"
    /\ last.out = <<[io |-> "send_message", value |-> "error", ok |-> FALSE]>>
    /\ last.loc.counted
    /\ commands = [c \in CmdNames |-> IF c = "compile" THEN 2 ELSE 0]

\* the join or leave handler that has just returned, if it handled its event
HandledGuildEvent ==
    \/ last.arg.kind = "guild_create" /\ last.arg.age < 30
    \/ last.arg.kind = "guild_delete"

\* the push and the presence update, the calls every handled join or leave
\* ends with
EndsWithPushAndPresence(o) ==
    /\ Len(o) >= 2
    /\ o[Len(o) - 1].io = "update_stats"
    /\ o[Len(o)].io = "presence"

\* C15 as stated: a handled join or leave makes an audit post exactly when
\* JOIN_LOG is configured, and makes the push and the presence update in
\* either case.
AuditIffConfigured ==
    HandledGuildEvent =>
        /\ IoCount(last.out, "audit") =
              (IF config["JOIN_LOG"] # <<>> THEN 1 ELSE 0)
        /\ EndsWithPushAndPresence(last.out)

\* C15 amended: a handled join or leave makes an audit post exactly when
\* JOIN_LOG is configured and its value parses as a u64, to the channel of
\* that number; whether there was no post, a delivered one or a failed one,
\* the push and the presence update follow and nothing else is sent.
AuditIffChannelParses ==
    HandledGuildEvent =>
        /\ EndsWithPushAndPresence(last.out)
        /\ IF ParseU64(config["JOIN_LOG"]) >= 0
           THEN /\ Len(last.out) = 3
                /\ last.out[1].io = "audit"
                /\ last.out[1].value = ParseU64(config["JOIN_LOG"])
           ELSE Len(last.out) = 2

\* C15 witness: JOIN_LOG holds "4x": a leave was handled without an audit
\* post, with the push and the presence update.
UnparsableChannelSkipsAudit ==
    /\ last.arg.kind = "guild_delete"
    /\ config["JOIN_LOG"] = <<"4", "x">>
    /\ IoCount(last.out, "audit") = 0
    /\ EndsWithPushAndPresence(last.out)

\* C16: the total declared by the first ready signal is the expected shard
\* count for the whole boot: all_shards_ready runs at most once, and only at
\* the arrival count that equals that total, whatever totals later signals
\* declare.
FirstTotalAuthoritative ==
    /\ fleet_ready <= 1
    /\ \A p \in Procs :
          loc[p].fired => loc[p].shard_count = accepted[1].total

\* C17: a ready signal handled when shard_count + 1 exceeds the total it
\* declares is discarded: the handler returns at once, shard_count, the
\* per-shard tally and the configuration are unchanged and no network call is
\* made; a signal handled when shard_count + 1 does not exceed its total is
\* not discarded.
DuplicateReadyDiscarded ==
    [][\A p \in Procs :
          (pc[p] = "rd_lock_stats" /\ pc'[p] # "rd_lock_stats") =>
              IF shards + 1 > arg[p].total
              THEN /\ UNCHANGED <<shards, boot_count, config, fleet_ready>>
                   /\ pc'[p] = "idle"
                   /\ last'.arg = arg[p]
                   /\ last'.loc.skipped
                   /\ last'.out = <<>>
              ELSE /\ shards' = shards + 1
                   /\ ~last'.loc.skipped]_vars

\* C17 witness: two signals declaring 2 shards were counted; a signal
\* declaring 1 shard, whose total the count had passed, has just been
\* discarded.
SignalPastItsTotalDiscarded ==
    /\ last.arg.kind = "ready" /\ last.arg.total = 1
    /\ last.loc.skipped /\ last.out = <<>>
    /\ shards = 2 /\ Len(boot_count) = 2

\* server_count as the handler that has just returned left it
CountAfter(l, a) ==
    IF ~tracking THEN l.before
    ELSE IF a.kind = "guild_create" THEN l.before + 1
    ELSE Max0(l.before - 1)

\* C18: when the push of a join or leave handler returns, failed or not, the
\* counters are left as they are and the handler goes on to the presence
\* update; a handled join or leave has made exactly one push, then one
\* presence update carrying the server_count its own stats step produced,
\* which is still the value of the counter.
PushFailureRecovered ==
    /\ [](HandledGuildEvent =>
            /\ IoCount(last.out, "update_stats") = 1
            /\ EndsWithPushAndPresence(last.out)
            /\ last.out[Len(last.out)].value = CountAfter(last.loc, last.arg)
            /\ servers = CountAfter(last.loc, last.arg))
    /\ [][\A p \in Procs :
            (pc[p] \in {"gc_update_stats", "gd_update_stats"}
                /\ pc'[p] # pc[p]) =>
                    /\ UNCHANGED statsVars
                    /\ pc'[p] \in {"gc_lock_manager", "gd_lock_manager"}]_vars

\* C18 witness: a join raised server_count from 0 to 1, its push failed, and
\* the handler returned after a presence update carrying 1.
JoinPushFailedPresenceSent ==
    /\ last.arg.kind = "guild_create" /\ tracking
    /\ Len(last.out) = 2
    /\ last.out[1].io = "update_stats" /\ ~last.out[1].ok
    /\ last.out[2] = [io |-> "presence", value |-> 1]
    /\ servers = 1

\* the order in which the handlers take the containers
LockRank ==
    [c \in Containers |->
        IF c = "stats" THEN 1 ELSE IF c = "config" THEN 2
        ELSE IF c = "dbl" THEN 3 ELSE IF c = "manager" THEN 4
        ELSE IF c = "blocklist" THEN 5 ELSE 6]

\* C19: a task takes a container only while every container it holds comes
\* earlier in the order stats, configuration, sink handle, manager handle;
\* and every handler that has started returns.
EveryHandlerCompletes ==
    /\ [][\A p \in Procs :
            \A c \in HeldContainers(p)' \ HeldContainers(p) :
                \A d \in HeldContainers(p) : LockRank[d] < LockRank[c]]_vars
    /\ \A p \in Procs : (pc[p] # "idle") ~> (pc[p] = "idle")

\* C19 witness: a leave handler holds the stats lock and the configuration
\* read guard with its audit post pending, while a ready handler waits for
\* the stats lock.
ReadyWaitsBehindLeave ==
    \E p, q \in Procs :
        /\ pc[p] = "gd_audit"
        /\ HeldContainers(p) = {"stats", "config"}
        /\ pc[q] = "rd_lock_stats"
        /\ ~CanAcquire(q, "stats", "W")

\* the positions of a join handler after its stats step
AfterJoinCount == {"gc_lock_config", "gc_audit", "gc_lock_dbl",
                   "gc_update_stats", "gc_lock_manager", "gc_presence"}

\* the positions of a leave handler after its stats step
AfterLeaveCount == {"gd_lock_config", "gd_audit", "gd_lock_dbl",
                    "gd_update_stats", "gd_lock_manager", "gd_presence"}

\* C20: between the stats step of a join or leave handler and its return no
\* other handler is past its own stats step, so the server_count the handler
\* read is the value of the counter while its push and its presence update
\* are pending, and the values it has sent when it returns are the counter's
\* value then.
PushesCarryCurrentCount ==
    /\ Cardinality({p \in Procs : pc[p] \in AfterJoinCount \cup AfterLeaveCount})
          <= 1
    /\ \A p \in Procs :
          /\ pc[p] \in AfterJoinCount => loc[p].server_count = servers
          /\ pc[p] \in {"gd_update_stats", "gd_lock_manager", "gd_presence"} =>
                loc[p].server_count = servers
    /\ HandledGuildEvent =>
          /\ last.out[Len(last.out) - 1].value = servers
          /\ last.out[Len(last.out)].value = servers

\* C20 witness: the second of two joins has its push of server_count 2
\* pending while a leave handler waits for the stats lock; the counter is 2.
SecondJoinPushesTwo ==
    \E p, q \in Procs :
        /\ tracking /\ servers = 2
        /\ pc[p] = "gc_update_stats" /\ loc[p].server_count = 2
        /\ pc[q] = "gd_lock_stats"
====
